---- MODULE Spec2Model ----
(***************************************************************************)
(* CHOFermentationSimulator (src/CHOFermentation.py): the simulator        *)
(* object, its environmental-stress and Monod/Haldane functions, and the   *)
(* explicit-Euler loop of simulate, run by several callers at once.        *)
(*                                                                         *)
(* Numbers.  The program computes in IEEE-754 binary64 (Python float,      *)
(* numpy.float64).  The model keeps the structure of that arithmetic:      *)
(* every operation is computed exactly and then rounded once to nearest    *)
(* (ties to even); a result above the largest double becomes inf, one      *)
(* below the smallest becomes 0; inf * 0, inf - inf and inf / inf are nan; *)
(* every comparison with nan is false.  The range is that of binary64      *)
(* (about 1.797e308 and 4.94e-324).  The significand is decimal and        *)
(* carries 4 digits instead of 53 bits, so a rounding effect that needs a  *)
(* ratio of 1e16 between two doubles shows at a ratio of 1e4 here.         *)
(***************************************************************************)
EXTENDS Integers, Sequences, FiniteSets, TLC

VARIABLES
    self,   \* the CHOFermentationSimulator object
    call,   \* one record per invocation of simulate: its locals and buffers
    probe   \* a direct call of monod_kinetics: its arguments and results

vars == <<self, call, probe>>

----------------------------------------------------------------------------
(* numpy.float64 *)

MantLimit == 10 * 1000

Pow10(k) ==
    CASE k = 0 -> 1
      [] k = 1 -> 10
      [] k = 2 -> 100
      [] k = 3 -> 1000
      [] k = 4 -> 10000
      [] k = 5 -> 100000
      [] k = 6 -> 1000000
      [] k = 7 -> 10000000
      [] k = 8 -> 100000000
      [] OTHER -> 1000000000

NumDigits(M) ==
    IF M < 10 THEN 1
    ELSE IF M < 100 THEN 2
    ELSE IF M < 1000 THEN 3
    ELSE IF M < 10000 THEN 4
    ELSE IF M < 100000 THEN 5
    ELSE IF M < 1000000 THEN 6
    ELSE IF M < 10000000 THEN 7
    ELSE IF M < 100000000 THEN 8
    ELSE IF M < 1000000000 THEN 9
    ELSE 10

Abs(n) == IF n < 0 THEN -n ELSE n

Fin(m, e) == [k |-> "fin", m |-> m, e |-> e]
Zero == Fin(0, 0)
PInf == [k |-> "inf", m |-> 1, e |-> 0]
NInf == [k |-> "inf", m |-> -1, e |-> 0]
NaN  == [k |-> "nan", m |-> 0, e |-> 0]

IsNaN(x) == x.k = "nan"
IsInf(x) == x.k = "inf"
IsFin(x) == x.k = "fin"
Sign(x) == IF x.m > 0 THEN 1 ELSE IF x.m < 0 THEN -1 ELSE 0
Inf(s) == IF s > 0 THEN PInf ELSE NInf

\* a normalised significand m in 1000..9999 with exponent e: overflow to inf
\* above 1.797e308, underflow to 0 below half of 4.94e-324
Pack(s, m, e) ==
    IF e > 305 \/ (e = 305 /\ m > 1797) THEN Inf(s)
    ELSE IF e < -327 \/ (e = -327 /\ m < 2470) THEN Zero
    ELSE Fin(s * m, e)

\* s * M * 10^e (M > 0; sticky: a non-zero part below M was already dropped)
\* rounded to nearest, ties to even
Round(s, M, e, sticky) ==
    LET d == NumDigits(M) IN
    IF d <= 4
    THEN Pack(s, M * Pow10(4 - d), e - (4 - d))
    ELSE LET sh == d - 4
             q  == M \div Pow10(sh)
             r  == M % Pow10(sh)
             h  == Pow10(sh) \div 2
             up == r > h \/ (r = h /\ (sticky \/ q % 2 = 1))
             q2 == IF up THEN q + 1 ELSE q
         IN  IF q2 = MantLimit
             THEN Pack(s, MantLimit \div 10, e + sh + 1)
             ELSE Pack(s, q2, e + sh)

\* the literal n / 10^scale, e.g. Dec(35, 3) for 0.035
Dec(n, scale) == IF n = 0 THEN Zero
                 ELSE Round(IF n < 0 THEN -1 ELSE 1, Abs(n), -scale, FALSE)
One == Fin(1000, -3)

FNeg(x) == [x EXCEPT !.m = -x.m]

FAdd(x, y) ==
    IF IsNaN(x) \/ IsNaN(y) THEN NaN
    ELSE IF IsInf(x) /\ IsInf(y) THEN (IF x.m = y.m THEN x ELSE NaN)
    ELSE IF IsInf(x) THEN x
    ELSE IF IsInf(y) THEN y
    ELSE IF x.m = 0 THEN y
    ELSE IF y.m = 0 THEN x
    ELSE LET hi == IF x.e >= y.e THEN x ELSE y
             lo == IF x.e >= y.e THEN y ELSE x
             df == hi.e - lo.e
         IN  IF df > 5 THEN hi
             ELSE LET M == hi.m * Pow10(df) + lo.m
                  IN  IF M = 0 THEN Zero
                      ELSE Round(IF M < 0 THEN -1 ELSE 1, Abs(M), lo.e, FALSE)

FSub(x, y) == FAdd(x, FNeg(y))

FMul(x, y) ==
    IF IsNaN(x) \/ IsNaN(y) THEN NaN
    ELSE IF IsInf(x) \/ IsInf(y)
         THEN (IF Sign(x) = 0 \/ Sign(y) = 0 THEN NaN ELSE Inf(Sign(x) * Sign(y)))
    ELSE IF x.m = 0 \/ y.m = 0 THEN Zero
    ELSE Round(Sign(x) * Sign(y), Abs(x.m) * Abs(y.m), x.e + y.e, FALSE)

\* numpy's division: x / 0 is inf (0 / 0 is nan) with a warning, no exception
FDiv(x, y) ==
    IF IsNaN(x) \/ IsNaN(y) THEN NaN
    ELSE IF IsInf(x) THEN (IF IsInf(y) THEN NaN
                           ELSE Inf(x.m * (IF y.m < 0 THEN -1 ELSE 1)))
    ELSE IF IsInf(y) THEN Zero
    ELSE IF y.m = 0 THEN (IF x.m = 0 THEN NaN ELSE Inf(Sign(x)))
    ELSE IF x.m = 0 THEN Zero
    ELSE LET N == Abs(x.m) * Pow10(5)
             Q == N \div Abs(y.m)
             R == N % Abs(y.m)
         IN  Round(Sign(x) * Sign(y), Q, x.e - y.e - 5, R # 0)

\* x > y; false when either is nan
FGt(x, y) ==
    IF IsNaN(x) \/ IsNaN(y) THEN FALSE
    ELSE IF IsInf(x) THEN (x.m > 0 /\ ~(IsInf(y) /\ y.m > 0))
    ELSE IF IsInf(y) THEN y.m < 0
    ELSE IF Sign(x) # Sign(y) THEN Sign(x) > Sign(y)
    ELSE IF Sign(x) = 0 THEN FALSE
    ELSE IF Sign(x) > 0 THEN (x.e > y.e \/ (x.e = y.e /\ x.m > y.m))
    ELSE (x.e < y.e \/ (x.e = y.e /\ x.m > y.m))

\* x == y; nan equals nothing, itself included
FEq(x, y) == ~IsNaN(x) /\ ~IsNaN(y) /\ x = y
FGe(x, y) == FGt(x, y) \/ FEq(x, y)
FLe(x, y) == FGe(y, x)
FLt(x, y) == FGt(y, x)

----------------------------------------------------------------------------
(* numpy.exp, numpy.prod, numpy.round, max *)

\* exp(-2^k)
ExpTable(k) ==
    CASE k = 0 -> Fin(3679, -4)
      [] k = 1 -> Fin(1353, -4)
      [] k = 2 -> Fin(1832, -5)
      [] k = 3 -> Fin(3355, -7)
      [] k = 4 -> Fin(1125, -10)
      [] k = 5 -> Fin(1266, -17)
      [] k = 6 -> Fin(1604, -31)
      [] k = 7 -> Fin(2572, -59)
      [] k = 8 -> Fin(6616, -115)
      [] OTHER -> Fin(4377, -226)

\* exp(-n * 2^k) for a natural number n < 1024 / 2^k
RECURSIVE ExpInt(_, _)
ExpInt(n, k) ==
    IF n = 0 THEN One
    ELSE LET rest == ExpInt(n \div 2, k + 1)
         IN  IF n % 2 = 1 THEN FMul(ExpTable(k), rest) ELSE rest

\* exp(-r) for 0 <= r < 1: 1 - r/1 (1 - r/2 (1 - r/3 ( ... (1 - r/7))))
RECURSIVE ExpSeries(_, _)
ExpSeries(r, j) ==
    IF j > 7 THEN One
    ELSE FSub(One, FMul(FDiv(r, Dec(j, 0)), ExpSeries(r, j + 1)))

\* exp(-a) for a finite a > 0
ExpNeg(a) ==
    IF a.e >= 0 THEN Zero
    ELSE IF a.e <= -4 THEN ExpSeries(a, 1)
    ELSE LET p == Pow10(-a.e)
             n == a.m \div p
             f == a.m % p
             r == IF f = 0 THEN Zero ELSE Round(1, f, a.e, FALSE)
         IN  FMul(ExpInt(n, 0), ExpSeries(r, 1))

Exp(x) ==
    IF IsNaN(x) THEN NaN
    ELSE IF IsInf(x) THEN (IF x.m > 0 THEN PInf ELSE Zero)
    ELSE IF x.m = 0 THEN One
    ELSE IF x.m < 0 THEN ExpNeg(FNeg(x))
    ELSE FDiv(One, ExpNeg(x))

\* numpy.prod of a list: the factors multiplied from left to right
RECURSIVE Prod(_)
Prod(fs) == IF Len(fs) = 1 THEN fs[1]
            ELSE FMul(Prod(SubSeq(fs, 1, Len(fs) - 1)), fs[Len(fs)])

\* Python's max(0, x): x replaces 0 only if x > 0, so max(0, nan) is 0
Max0(x) == IF FGt(x, Zero) THEN x ELSE Zero

\* numpy.round(x, 2)
Round2(x) ==
    IF ~IsFin(x) \/ x.m = 0 \/ x.e >= -2 THEN x
    ELSE LET sh == -2 - x.e IN
         IF sh > 4 THEN Zero
         ELSE LET q  == Abs(x.m) \div Pow10(sh)
                  r  == Abs(x.m) % Pow10(sh)
                  h  == Pow10(sh) \div 2
                  q2 == IF r > h \/ (r = h /\ q % 2 = 1) THEN q + 1 ELSE q
              IN  IF q2 = 0 THEN Zero ELSE Round(Sign(x), q2, -2, FALSE)

----------------------------------------------------------------------------
(* CHOFermentationSimulator *)

MaxDuration == 4
MaxTimeStep == 2
MaxConcurrentDuration == 3

Calls == {1, 2}
Durations == 0 .. MaxDuration
TimeSteps == -1 .. MaxTimeStep

None == [k |-> "none", m |-> 0, e |-> 0]
keys == <<"glucose", "vcd", "tcd", "dead_cells", "viability", "antibody_titer">>
factors == <<"temp", "ph", "oxygen", "glucose">>

\* len(numpy.arange(0, stop, step)): ceil(stop / step), or 0 if that is negative
ArangeLen(stop, step) ==
    LET a  == IF step < 0 THEN -stop ELSE stop
        b  == Abs(step)
        c  == -((-a) \div b)
    IN  IF c < 0 THEN 0 ELSE c

\* numpy.arange(0, stop, step); a zero step raises
arange(stop, step) == [j \in 1 .. ArangeLen(stop, step) |-> (j - 1) * step]

\* __init__(duration, time_step)
New(duration, time_step) ==
    [status                  |-> IF time_step = 0 THEN "raised" ELSE "ok",
     duration                |-> duration,
     time_step               |-> time_step,
     time_points             |-> IF time_step = 0 THEN <<>>
                                 ELSE arange(duration + time_step, time_step),
     max_growth_rate         |-> Dec(35, 3),
     substrate_affinity      |-> Dec(20, 1),
     yield_coefficient       |-> Dec(4, 1),
     maintenance_coefficient |-> Dec(2, 2),
     death_rate              |-> Dec(5, 3),
     antibody_productivity   |-> Dec(8, 1),
     inhibition_constant     |-> Dec(500, 1),
     optimal |-> [temp |-> Dec(370, 1), ph |-> Dec(72, 1),
                  oxygen |-> Dec(500, 1), glucose |-> Dec(20, 0)],
     sigma   |-> [temp |-> Dec(20, 1), ph |-> Dec(4, 1),
                  oxygen |-> Dec(200, 1), glucose |-> Dec(400, 1)]]

stress_gaussian(deviation, sg) ==
    LET q == FDiv(deviation, sg)
    IN  Exp(FMul(Dec(-5, 1), FMul(q, q)))

evaluate_environment(s, temperature, ph, oxygen_saturation, glucose) ==
    LET deviations ==
            [temp    |-> FSub(temperature, s.optimal.temp),
             ph      |-> FSub(ph, s.optimal.ph),
             oxygen  |-> FSub(oxygen_saturation, s.optimal.oxygen),
             glucose |-> FSub(glucose, s.optimal.glucose)]
        activity_factors ==
            [j \in 1 .. 4 |->
                stress_gaussian(deviations[factors[j]], s.sigma[factors[j]])]
        stress_factors ==
            [j \in 1 .. 4 |->
                FDiv(One, stress_gaussian(deviations[factors[j]],
                                          s.sigma[factors[j]]))]
    IN  [activity_effect |-> Prod(activity_factors),
         death_rate      |-> FMul(s.death_rate, Prod(stress_factors))]

monod_kinetics_minus(substrate, k_s, k_i) ==
    IF FLe(substrate, Zero) THEN Zero
    ELSE IF k_i = None THEN FDiv(substrate, FAdd(k_s, substrate))
    ELSE FDiv(substrate,
              FSub(FAdd(k_s, substrate), FDiv(FMul(substrate, substrate), k_i)))

monod_kinetics(substrate, k_s, k_i) ==
    IF FLe(substrate, Zero) THEN Zero
    ELSE IF k_i = None THEN FDiv(substrate, FAdd(k_s, substrate))
    ELSE FDiv(substrate,
              FAdd(FAdd(k_s, substrate), FDiv(FMul(substrate, substrate), k_i)))

----------------------------------------------------------------------------
(* simulate *)

\* buf[i] of a numpy array, indexed from 0
At(buf, i) == buf[i + 1]
Put(buf, i, x) == [buf EXCEPT ![i + 1] = x]
zeros(n) == [j \in 1 .. n |-> Zero]
full(n, x) == [j \in 1 .. n |-> x]

NoArgs == [initial_glucose |-> Zero, initial_vcd |-> Zero, temperature |-> Zero,
           ph_constant |-> Zero, oxygen_saturation |-> Zero]
NoLocals == [activity_effect |-> Zero, death_rate |-> Zero,
             substrate_factor |-> Zero, growth_rate |-> Zero,
             vcd_growth |-> Zero, vcd_death |-> Zero,
             glucose_consumption |-> Zero]
NoFrame == [time |-> <<>>, glucose |-> <<>>, vcd |-> <<>>, tcd |-> <<>>,
            viability |-> <<>>, antibody_titer |-> <<>>,
            temperature |-> <<>>, ph |-> <<>>, oxygen |-> <<>>]
IdleCall == [pc |-> "idle", args |-> NoArgs, n |-> 0, i |-> 0,
             data |-> [k \in {keys[j] : j \in 1 .. 6} |-> <<>>],
             loc |-> NoLocals, result |-> NoFrame]

\* lines 106-116: the buffers of a call and their row 0; on an empty
\* time_points the first store raises IndexError
InitialData(n, a) ==
    [glucose        |-> Put(zeros(n), 0, a.initial_glucose),
     vcd            |-> Put(zeros(n), 0, a.initial_vcd),
     tcd            |-> Put(zeros(n), 0, a.initial_vcd),
     dead_cells     |-> zeros(n),
     viability      |-> Put(zeros(n), 0, Dec(100, 0)),
     antibody_titer |-> zeros(n)]

\* lines 128-139 and 154-155: the locals of iteration i that follow from the
\* result env of evaluate_environment
LocalsFrom(s, d, i, env) ==
    LET dt           == Dec(s.time_step, 0)
        prev_glucose == At(d.glucose, i - 1)
        prev_vcd     == At(d.vcd, i - 1)
        substrate_factor == monod_kinetics(prev_glucose, s.substrate_affinity,
                                           s.inhibition_constant)
        growth_rate  == IF FGt(prev_vcd, Zero)
                        THEN FMul(FMul(s.max_growth_rate, substrate_factor),
                                  env.activity_effect)
                        ELSE Zero
        vcd_growth   == FMul(FMul(growth_rate, prev_vcd), dt)
        vcd_death    == FMul(FMul(env.death_rate, prev_vcd), dt)
    IN  [activity_effect  |-> env.activity_effect,
         death_rate       |-> env.death_rate,
         substrate_factor |-> substrate_factor,
         growth_rate      |-> growth_rate,
         vcd_growth       |-> vcd_growth,
         vcd_death        |-> vcd_death,
         glucose_consumption |->
             FAdd(FDiv(vcd_growth, s.yield_coefficient),
                  FMul(FMul(s.maintenance_coefficient, prev_vcd), dt))]

\* lines 120-139: the locals of iteration i (env is evaluated once)
Locals(s, a, d, i) ==
    CHOOSE l \in
        {LocalsFrom(s, d, i, env) :
            env \in {evaluate_environment(s, a.temperature, a.ph_constant,
                                          a.oxygen_saturation,
                                          At(d.glucose, i - 1))}} : TRUE

\* max(x, 0) keeps a nan x: 0 replaces x only if 0 > x
MaxX0(x) == IF FGt(Zero, x) THEN Zero ELSE x

NewVcd_unfloored(prev_vcd, l) == FSub(FAdd(prev_vcd, l.vcd_growth), l.vcd_death)

NewVcd_swapped(prev_vcd, l) ==
    MaxX0(FSub(FAdd(prev_vcd, l.vcd_growth), l.vcd_death))

\* line 142
NewVcd(prev_vcd, l) == Max0(FSub(FAdd(prev_vcd, l.vcd_growth), l.vcd_death))

\* line 146
NewDeadCells(prev_dead, l) == FAdd(prev_dead, l.vcd_death)

\* line 147
NewTcd(vcd_current, dead) == FAdd(vcd_current, dead)

\* lines 150-151
NewViability(vcd_current, tcd) ==
    IF FGt(tcd, Zero) THEN FMul(FDiv(vcd_current, tcd), Dec(100, 0)) ELSE Zero

\* line 156
NewGlucose(prev_glucose, l) == Max0(FSub(prev_glucose, l.glucose_consumption))

\* lines 159-166
NewTiter(s, prev_titer, vcd_current, l) ==
    IF FGt(vcd_current, Zero)
    THEN FAdd(prev_titer,
              FMul(FMul(FMul(s.antibody_productivity, vcd_current),
                        Dec(s.time_step, 0)),
                   l.activity_effect))
    ELSE prev_titer

\* lines 141-166: row i of the buffers, from row i-1 and the locals
Iterate(s, d, i, l) ==
    LET vcd_current == NewVcd(At(d.vcd, i - 1), l)
        dead        == NewDeadCells(At(d.dead_cells, i - 1), l)
        tcd         == NewTcd(vcd_current, dead)
    IN  [glucose        |-> Put(d.glucose, i, NewGlucose(At(d.glucose, i - 1), l)),
         vcd            |-> Put(d.vcd, i, vcd_current),
         tcd            |-> Put(d.tcd, i, tcd),
         dead_cells     |-> Put(d.dead_cells, i, dead),
         viability      |-> Put(d.viability, i, NewViability(vcd_current, tcd)),
         antibody_titer |-> Put(d.antibody_titer, i,
                                NewTiter(s, At(d.antibody_titer, i - 1),
                                         vcd_current, l))]

\* lines 169-179: the DataFrame
Frame(s, a, d, n) ==
    [time           |-> s.time_points,
     glucose        |-> [j \in 1 .. n |-> Round2(d.glucose[j])],
     vcd            |-> [j \in 1 .. n |-> Round2(d.vcd[j])],
     tcd            |-> [j \in 1 .. n |-> Round2(d.tcd[j])],
     viability      |-> [j \in 1 .. n |-> Round2(d.viability[j])],
     antibody_titer |-> [j \in 1 .. n |-> Round2(d.antibody_titer[j])],
     temperature    |-> full(n, a.temperature),
     ph             |-> full(n, a.ph_constant),
     oxygen         |-> full(n, a.oxygen_saturation)]

\* lines 120-166: the buffers after iteration i
Iteration(s, a, d, i) ==
    CHOOSE d2 \in {Iterate(s, d, i, l) : l \in {Locals(s, a, d, i)}} : TRUE

\* lines 119-166 run without interruption: the buffers after the loop
RECURSIVE Loop(_, _, _, _, _)
Loop(s, a, d, i, n) ==
    IF i >= n THEN d
    ELSE CHOOSE r \in {Loop(s, a, d2, i + 1, n) : d2 \in {Iteration(s, a, d, i)}} : TRUE

\* simulate(...) as one call on a simulator with at least one time point
simulate(s, a) ==
    LET n == Len(s.time_points)
    IN  Frame(s, a, Loop(s, a, InitialData(n, a), 1, n), n)

SelfAfterIteration_stored(s, l) == [s EXCEPT !.death_rate = l.death_rate]

\* what simulate stores into the simulator object during an iteration: nothing
SelfAfterIteration(s, l) == s

\* the buffers iteration i of call c reads and writes: its own local dict
Buffers(c) == call[c].data

----------------------------------------------------------------------------
(* run parameters *)

InitialGlucose == {Dec(1, 2), Dec(25, 0)}
InitialVcd     == {Zero, Dec(5, 1)}
Temperatures   == {Dec(37, 0), Dec(45, 0), Dec(120, 0)}
PhAndOxygen    == {<<Dec(72, 1), Dec(50, 0)>>, <<Dec(68, 1), Dec(30, 0)>>}

RunArgs ==
    {[initial_glucose |-> g, initial_vcd |-> v, temperature |-> t,
      ph_constant |-> po[1], oxygen_saturation |-> po[2]] :
        g \in InitialGlucose, v \in InitialVcd, t \in Temperatures,
        po \in PhAndOxygen}

----------------------------------------------------------------------------
(* the state machine *)

NoProbe == [pc |-> "none", substrate |-> Zero, k_s |-> Zero, k_i |-> None,
            monod |-> Zero, haldane |-> Zero]

Init ==
    /\ \E duration \in Durations, time_step \in TimeSteps :
           self = New(duration, time_step)
    /\ call = [c \in Calls |-> IdleCall]
    /\ probe = NoProbe

\* simulate(...) up to the loop (lines 99-116)
Begin(c, a) ==
    /\ self.status = "ok"
    /\ call[c].pc = "idle"
    /\ LET n == Len(self.time_points) IN
       call' = [call EXCEPT ![c] =
                   IF n = 0
                   THEN [@ EXCEPT !.pc = "raised", !.args = a, !.n = n]
                   ELSE [@ EXCEPT !.pc = "loop", !.args = a, !.n = n, !.i = 1,
                                  !.data = InitialData(n, a)]]
    /\ UNCHANGED <<self, probe>>

\* one iteration of the loop (lines 119-166)
Step(c) ==
    /\ call[c].pc = "loop"
    /\ call[c].i < call[c].n
    /\ \E l \in {Locals(self, call[c].args, Buffers(c), call[c].i)} :
       /\ call' = [call EXCEPT ![c] =
                      [@ EXCEPT !.i = @ + 1, !.loc = l,
                                !.data = Iterate(self, Buffers(c), call[c].i, l)]]
       /\ self' = SelfAfterIteration(self, l)
    /\ UNCHANGED probe

\* the loop is over: the DataFrame is built and returned (lines 168-179)
Return(c) ==
    /\ call[c].pc = "loop"
    /\ call[c].i >= call[c].n
    /\ call' = [call EXCEPT ![c] =
                   [@ EXCEPT !.pc = "done",
                             !.result = Frame(self, call[c].args, call[c].data,
                                              call[c].n)]]
    /\ UNCHANGED <<self, probe>>

\* the caller drops the trajectory (or the exception) before its next run
Discard(c) ==
    /\ call[c].pc \in {"done", "raised"}
    /\ call' = [call EXCEPT ![c] = IdleCall]
    /\ UNCHANGED <<self, probe>>

\* one caller, every configuration and every run parameter
Next ==
    \/ \E a \in RunArgs : Begin(1, a)
    \/ Step(1)
    \/ Return(1)
    \/ Discard(1)

Spec == Init /\ [][Next]_vars

\* several callers of one simulator, their iterations interleaved
ConcurrentArgs ==
    {a \in RunArgs : a.initial_glucose = Dec(25, 0) /\ a.ph_constant = Dec(72, 1)}

ConcurrentInit ==
    /\ \E duration \in 0 .. MaxConcurrentDuration : self = New(duration, 1)
    /\ call = [c \in Calls |-> IdleCall]
    /\ probe = NoProbe

ConcurrentNext ==
    \E c \in Calls :
        \/ \E a \in ConcurrentArgs : Begin(c, a)
        \/ Step(c)
        \/ Return(c)
        \/ Discard(c)

ConcurrentSpec == ConcurrentInit /\ [][ConcurrentNext]_vars

----------------------------------------------------------------------------
(* properties of a run *)

ValidConfig == self.time_step > 0 /\ self.duration >= self.time_step

\* the rows of call c computed so far
Rows(c) == IF call[c].pc \in {"loop", "done"} THEN 0 .. call[c].i - 1 ELSE {}
\* the rows of call c computed by an iteration of the loop
LoopRows(c) == Rows(c) \ {0}
Hundred == Dec(100, 0)

\* C1: in every run on a valid configuration, at every index, index 0 included, viability lies in [0, 100] and is 0
\* whenever TCD is 0 (the run parameters of the model are all >= 0).
C1_ViabilityRange ==
    ValidConfig => \A c \in Calls : \A i \in Rows(c) :
        LET v == At(call[c].data.viability, i)
            t == At(call[c].data.tcd, i)
        IN  /\ FGe(v, Zero)
            /\ FLe(v, Hundred)
            /\ (FEq(t, Zero) => FEq(v, Zero))

\* C2: at every index TCD == VCD + deadCells, with deadCells[0] = 0 and
\* TCD[0] = VCD[0] = initial_vcd.
C2_TcdIdentity ==
    ValidConfig => \A c \in Calls : \A i \in Rows(c) :
        LET d == call[c].data IN
        /\ FEq(At(d.tcd, i), FAdd(At(d.vcd, i), At(d.dead_cells, i)))
        /\ i = 0 => /\ FEq(At(d.dead_cells, 0), Zero)
                    /\ FEq(At(d.tcd, 0), call[c].args.initial_vcd)
                    /\ FEq(At(d.vcd, 0), call[c].args.initial_vcd)

\* C3: glucose and VCD are >= 0 at every index, whatever the growth, death and
\* consumption of the step were.
C3_NonNegative ==
    \A c \in Calls : \A i \in Rows(c) :
        /\ FGe(At(call[c].data.glucose, i), Zero)
        /\ FGe(At(call[c].data.vcd, i), Zero)

\* a run whose last iteration had a negative (or nan) VCD and a negative
\* glucose before the floor, and stored 0 for both
C3_Witness ==
    \E c \in Calls :
        /\ call[c].pc = "loop" /\ call[c].i >= 2
        /\ LET d == call[c].data
               i == call[c].i - 1
               l == call[c].loc
           IN  /\ FLt(FSub(FAdd(At(d.vcd, i - 1), l.vcd_growth), l.vcd_death), Zero)
               /\ FLt(FSub(At(d.glucose, i - 1), l.glucose_consumption), Zero)
               /\ At(d.vcd, i) = Zero
               /\ At(d.glucose, i) = Zero

\* C4: cumulative dead cells and antibody titer never decrease along the
\* trajectory.
C4_Monotone ==
    ValidConfig => \A c \in Calls : \A i \in LoopRows(c) :
        LET d == call[c].data IN
        /\ FGe(At(d.dead_cells, i), At(d.dead_cells, i - 1))
        /\ FGe(At(d.antibody_titer, i), At(d.antibody_titer, i - 1))

\* C5: with initial_vcd == 0, VCD and titer are 0 and glucose is
\* initial_glucose at every index, for any temperature, pH and oxygen.
C5_EmptyCulture ==
    \A c \in Calls :
        FEq(call[c].args.initial_vcd, Zero) =>
            \A i \in Rows(c) :
                /\ FEq(At(call[c].data.vcd, i), Zero)
                /\ FEq(At(call[c].data.antibody_titer, i), Zero)
                /\ FEq(At(call[c].data.glucose, i), call[c].args.initial_glucose)

\* a finished run of at least three rows on an empty culture whose death rate
\* overflowed (so that vcd_death was nan)
C5_Witness ==
    \E c \in Calls :
        /\ call[c].pc = "done" /\ call[c].n >= 3
        /\ call[c].args.initial_vcd = Zero
        /\ call[c].args.initial_glucose = Dec(25, 0)
        /\ IsInf(call[c].loc.death_rate)
        /\ IsNaN(call[c].loc.vcd_death)

\* C6: with time_step > 0 and duration >= time_step the sample times are
\* 0, time_step, ..., duration: duration/time_step + 1 of them, the last one
\* equal to duration, and a finished run has one row per sample time.
C6_SampleTimes ==
    ValidConfig =>
        /\ self.status = "ok"
        /\ (Len(self.time_points) - 1) * self.time_step = self.duration
        /\ self.time_points[Len(self.time_points)] = self.duration
        /\ \A j \in 1 .. Len(self.time_points) :
               self.time_points[j] = (j - 1) * self.time_step
        /\ \A c \in Calls :
               call[c].pc = "done" =>
                   Len(call[c].result.glucose) = Len(self.time_points)

\* C7: a configuration that violates time_step > 0 or duration >= time_step
\* is rejected at construction: simulate neither fails on it later nor
\* returns a trajectory for it.  (sigma is fixed by __init__, always > 0.)
C7_RejectedAtConstruction ==
    ~ValidConfig => \A c \in Calls : call[c].pc \notin {"raised", "done"}

\* C10: in every iteration the dead cells added do not exceed the viable
\* cells of that step, prev_VCD + vcd_growth, also when VCD is floored at 0
\* (so that TCD grows by the growth of the step and no more).  Stated for the
\* iterations whose vcd_death is a finite number.
C10_DeathBounded ==
    ValidConfig => \A c \in Calls :
        (call[c].pc \in {"loop", "done"} /\ call[c].i >= 2
             /\ IsFin(call[c].loc.vcd_death)) =>
            LET i == call[c].i - 1
                l == call[c].loc
            IN  FLe(l.vcd_death, FAdd(At(call[c].data.vcd, i - 1), l.vcd_growth))

\* C8: simulate writes no field of the simulator, and under any interleaving
\* every call returns the trajectory it returns when run alone (so equal run
\* parameters give equal trajectories).
C8_Isolation ==
    /\ self = New(self.duration, self.time_step)
    /\ \A c \in Calls :
           call[c].pc = "done" => call[c].result = simulate(self, call[c].args)
    /\ \A c1, c2 \in Calls :
           (call[c1].pc = "done" /\ call[c2].pc = "done"
                /\ call[c1].args = call[c2].args) =>
               call[c1].result = call[c2].result

\* two finished calls with different run parameters on one simulator
C8_Witness ==
    /\ call[1].pc = "done" /\ call[2].pc = "done"
    /\ call[1].n >= 3
    /\ call[1].args # call[2].args
    /\ call[1].result # call[2].result

\* C11: extinction is absorbing: if VCD is 0 at an index i of a run on a valid configuration, then at every
\* later index j VCD is 0, glucose, cumulative dead cells, TCD and antibody
\* titer have their index-i values, and viability is 0.
C11_ExtinctionAbsorbing ==
    ValidConfig => \A c \in Calls : \A i \in Rows(c) : \A j \in Rows(c) :
        (i < j /\ FEq(At(call[c].data.vcd, i), Zero)) =>
            LET d == call[c].data IN
            /\ FEq(At(d.vcd, j), Zero)
            /\ FEq(At(d.glucose, j), At(d.glucose, i))
            /\ FEq(At(d.dead_cells, j), At(d.dead_cells, i))
            /\ FEq(At(d.tcd, j), At(d.tcd, i))
            /\ FEq(At(d.antibody_titer, j), At(d.antibody_titer, i))
            /\ FEq(At(d.viability, j), Zero)

----------------------------------------------------------------------------
(* monod_kinetics called on its own *)

Substrates ==
    {Dec(-1, 0), Zero, Fin(1000, -12), Dec(5, 1), Dec(2, 0), Dec(5, 0),
     Dec(10, 0), Dec(25, 0), Dec(50, 0), Dec(100, 0), Fin(1000, 14),
     Fin(1000, 17), Fin(1000, 157)}
Affinities  == {Dec(5, 1), Dec(2, 0)}
Inhibitions == {Dec(5, 0), Dec(50, 0)}

MonodInit ==
    /\ self = New(MaxDuration, 1)
    /\ call = [c \in Calls |-> IdleCall]
    /\ \E sb \in Substrates, ks \in Affinities, ki \in Inhibitions :
           probe = [pc |-> "args", substrate |-> sb, k_s |-> ks, k_i |-> ki,
                    monod |-> Zero, haldane |-> Zero]

\* monod_kinetics(substrate, k_s) and monod_kinetics(substrate, k_s, k_i)
MonodCall ==
    /\ probe.pc = "args"
    /\ probe' = [probe EXCEPT
                    !.pc = "done",
                    !.monod = monod_kinetics(probe.substrate, probe.k_s, None),
                    !.haldane = monod_kinetics(probe.substrate, probe.k_s,
                                               probe.k_i)]
    /\ UNCHANGED <<self, call>>

\* the caller drops the results and calls again with other arguments
MonodAgain ==
    /\ probe.pc = "done"
    /\ \E sb \in Substrates, ks \in Affinities, ki \in Inhibitions :
           probe' = [pc |-> "args", substrate |-> sb, k_s |-> ks, k_i |-> ki,
                     monod |-> Zero, haldane |-> Zero]
    /\ UNCHANGED <<self, call>>

MonodNext == MonodCall \/ MonodAgain

MonodSpec == MonodInit /\ [][MonodNext]_vars

====
